---- MODULE Spec2Model ----
(***************************************************************************)
(* The simulated torrent lifecycle manager of SegaTorr                     *)
(* (src/torrent_manager.py): the registry TorrentManager.torrents, the     *)
(* per-record statistics step TorrentInfo.update_stats, the placeholder    *)
(* files it writes under DOWNLOAD_DIR, and the manager's operations.       *)
(*                                                                         *)
(* Representation.                                                         *)
(*  - progress is kept in half percents: Pct(100) = 200 stands for 100.0.  *)
(*    random.uniform(0.5, 3.0) is a draw on the grid 0.5, 1.0, ..., 3.0.   *)
(*  - an Optional value is <<>> (None) or <<v>>.                           *)
(*  - the filesystem below DOWNLOAD_DIR is the set dirs of directories and *)
(*    the set fs of regular files, both as path strings.                   *)
(*  - every random or environmental quantity of a call is a parameter of   *)
(*    its action, drawn from the sets of a "draws" record D; the           *)
(*    specifications at the end differ only in D and in the origins fed    *)
(*    to the add operations.                                               *)
(*  - result is the tuple the last manager call returned (emoji and the    *)
(*    interpolated names of the messages are left out).                    *)
(*  - session is the part of st.session_state the page's script uses:      *)
(*    authenticated, the whole seconds elapsed since last_update (3 stands *)
(*    for 3 or more), and run, the point the script is at: "idle" (it has  *)
(*    ended and waits for the user), "rerun" (st.rerun() was called) or    *)
(*    "refresh" (it goes on to auto_refresh_torrents).                     *)
(*  - pausing is the set of ids of the pause_torrent calls that have       *)
(*    passed their checks and not yet written the status; it is empty      *)
(*    wherever the calls are serialized.                                   *)
(*  - steps is a history variable: for every record held, the number of   *)
(*    update_stats calls made on it while its status was "downloading".    *)
(*    Only SpecSteps keeps it.                                             *)
(*                                                                         *)
(* Specifications.                                                         *)
(*  - Spec: one magnet link, progress in steps of 3.0, every file count    *)
(*    and failing filesystem calls in the materialization.                 *)
(*  - SpecProgress: one magnet link, every progress increment of the grid. *)
(*  - SpecRegistry: two origins of the same display name; the client's     *)
(*    calls come Burst refresh intervals apart.                            *)
(*  - SpecApi: requests to the query-parameter API.                        *)
(*  - SpecUi: the page's script runs of one session, with the scheduling   *)
(*    Streamlit gives them.                                                *)
(*  - SpecNames: magnet links of several shapes, for the display name.     *)
(*  - SpecInterleaved: pause_torrent run statement by statement against    *)
(*    the statistics update.                                               *)
(*  - SpecSteps: one magnet link, the smallest and the largest progress   *)
(*    increment, the statistics updates counted per record; the update is  *)
(*    weakly fair.                                                         *)
(***************************************************************************)
EXTENDS Integers, Sequences, FiniteSets, TLC

VARIABLES torrents, dirs, fs, result, session, pausing, steps

vars == <<torrents, dirs, fs, result, session, pausing, steps>>

-----------------------------------------------------------------------------
(* Python string helpers *)

StartsWith(s, p) == Len(s) >= Len(p) /\ SubSeq(s, 1, Len(p)) = p

EndsWith(s, p) == Len(s) >= Len(p) /\ SubSeq(s, Len(s) - Len(p) + 1, Len(s)) = p

RECURSIVE Find(_, _, _)
\* str.find(sub, i) with 1-based positions; 0 when sub does not occur.
Find(s, sub, i) ==
    IF i + Len(sub) - 1 > Len(s) THEN 0
    ELSE IF SubSeq(s, i, i + Len(sub) - 1) = sub THEN i
    ELSE Find(s, sub, i + 1)

Contains(s, sub) == Find(s, sub, 1) # 0

\* s.split(sep)[0]
SplitHead(s, sep) ==
    LET k == Find(s, sep, 1)
    IN  IF k = 0 THEN s ELSE SubSeq(s, 1, k - 1)

\* s.split(sep)[1], for s that contains sep
SplitSecond(s, sep) ==
    LET k    == Find(s, sep, 1)
        rest == SubSeq(s, k + Len(sep), Len(s))
    IN  SplitHead(rest, sep)

RECURSIVE Replace(_, _, _)
\* str.replace(old, new): every non-overlapping occurrence, left to right
Replace(s, old, new) ==
    LET k == Find(s, old, 1)
    IN  IF k = 0 THEN s
        ELSE SubSeq(s, 1, k - 1) \o new
             \o Replace(SubSeq(s, k + Len(old), Len(s)), old, new)

RECURSIVE LastSlash(_, _)
LastSlash(s, i) ==
    IF i = 0 THEN 0
    ELSE IF SubSeq(s, i, i) = "/" THEN i
    ELSE LastSlash(s, i - 1)

\* Path(p).parent for an absolute path
ParentDir(p) ==
    LET k == LastSlash(p, Len(p))
    IN  IF k <= 1 THEN "/" ELSE SubSeq(p, 1, k - 1)

-----------------------------------------------------------------------------
(* Constants of the program *)

DOWNLOAD_DIR == "/tmp/downloads"

\* pathlib's DOWNLOAD_DIR / name
PathJoin(base, name) ==
    IF name = "" THEN base
    ELSE IF StartsWith(name, "/") THEN name
    ELSE base \o "/" \o name

Pct(x) == 2 * x

MiB == 1024 * 1024

None == <<>>

Some(v) == <<v>>

InvalidFormat     == "Invalid magnet link format"
InvalidFileType   == "Invalid file type. Please upload a .torrent file"
ErrorSaving       == "Error saving torrent file"
Duplicate         == "Torrent already exists"
Added             == "Added torrent"
NotFound          == "Torrent not found"
CannotPause       == "Cannot pause completed torrent"
Paused            == "Paused"
NotPaused         == "Torrent is not paused"
Resumed           == "Resumed"
ErrorDeleting     == "Error deleting files"
Deleted           == "Deleted"
DeletedFile       == "Deleted file"
ErrorDeletingFile == "Error deleting file"
FileNotFound      == "File not found"

\* the status pause_torrent refuses, and the one resume_torrent requires
InvalidTransition == {CannotPause, NotPaused}

Ret(ok, message, payload) == [ok |-> ok, message |-> message, data |-> payload]

\* update_all_stats returns nothing
NoResult == Ret(TRUE, "", None)

-----------------------------------------------------------------------------
(* Origins and identifiers *)

LinkA     == "magnet:?xt=urn:btih:ABC&dn=My+Movie"
LinkB     == "magnet:?xt=urn:btih:DEF&dn=My%20Movie"
LinkPlain == "magnet:?xt=urn:btih:123"
LinkDn    == "magnet:?xt=urn:btih:ABC&dn=cdn=mirror"
NotMagnet == "not-a-magnet"
Upload    == "My Movie.torrent"
NotesTxt  == "notes.txt"

\* hashlib.md5(identifier.encode()).hexdigest()[:12], tabulated for the
\* origins the specifications use (values computed with hashlib).
Md5Hex12 ==
    [s \in {LinkA, LinkB, LinkPlain, LinkDn, NotMagnet, Upload, NotesTxt} |->
        CASE s = LinkA     -> "4d36b0aac85e"
          [] s = LinkB     -> "bb13f1f816b1"
          [] s = LinkDn    -> "8e8412998afb"
          [] s = LinkPlain -> "b9ce6fa78650"
          [] s = NotMagnet -> "54565a0b665c"
          [] s = Upload    -> "6dac9b567cf2"
          [] s = NotesTxt  -> "a5d5286f1e67"]

generate_torrent_id(identifier) == Md5Hex12[identifier]

\* an id no origin of the model hashes to
UnknownId == "000000000000"

\* the name add_magnet gives the record; now is strftime('%Y%m%d_%H%M%S')
MagnetName(magnet_link, now) ==
    IF Contains(magnet_link, "dn=")
    THEN Replace(Replace(SplitHead(SplitSecond(magnet_link, "dn="), "&"),
                         "+", " "), "%20", " ")
    ELSE "Torrent_" \o now

-----------------------------------------------------------------------------
(* TorrentInfo *)

\* materializations and errors are history fields: the number of times
\* _create_dummy_files has run for this record, and the number of times it
\* has reported a failure with st.error.
TorrentInfo(torrent_id, name, magnet_link, file_path, size, now) ==
    [ id               |-> torrent_id,
      name             |-> name,
      magnet_link      |-> magnet_link,
      file_path        |-> file_path,
      status           |-> "downloading",
      progress         |-> 0,
      download_speed   |-> 0,
      upload_speed     |-> 0,
      peers            |-> 0,
      seeds            |-> 0,
      total_size       |-> size,
      downloaded       |-> 0,
      eta              |-> None,
      added_time       |-> now,
      files            |-> <<>>,
      download_path    |-> PathJoin(DOWNLOAD_DIR, name),
      materializations |-> 0,
      errors           |-> 0 ]

\* DownloadedBytes, were the product rounded to the nearest integer
DownloadedBytesRounded(progress, total_size) ==
    LET m == total_size \div MiB
    IN  progress * m * 5242 + (progress * m * 22 + 12) \div 25

\* int((progress / 100) * total_size); total_size is a whole number of MiB,
\* and the product is split so that it stays within 32 bits.
DownloadedBytes(progress, total_size) ==
    LET m == total_size \div MiB
    IN  progress * m * 5242 + (progress * m * 22) \div 25

PartNo == <<"1", "2", "3", "4", "5">>

DummyName(name, i, ext) == name \o "_part" \o PartNo[i] \o ext

\* os.path.getsize of the three lines written to the file
DummySize(name, filename) == 18 + Len(filename) + 1 + 9 + Len(name) + 1 + 30

\* LoopDone, were the last file left out
LoopDoneEarly(i, n) == i >= n

\* for i in range(num_files), with i counted from 1
LoopDone(i, n) == i > n

RECURSIVE WriteDummies(_, _, _, _)
\* The loop of _create_dummy_files from file i on, over the world
\* w = [t, dirs, fs]. draw.fault is the filesystem call that raises, if
\* any: Some(0) the mkdir, Some(i) the open of file i. open also raises
\* when the parent directory of the path does not exist. The body is
\* applied to the value of world: self is one object, read once however
\* often the body names it.
WriteDummies(world, draw, i, n) ==
    LET Body(w) ==
          IF LoopDone(i, n) THEN w
          ELSE LET filename  == DummyName(w.t.name, i, draw.ext[i])
                   file_path == PathJoin(w.t.download_path, filename)
               IN  IF draw.fault = Some(i) \/ ParentDir(file_path) \notin w.dirs
                      \/ file_path \in w.dirs
                   THEN [w EXCEPT !.t.errors = @ + 1]
                   ELSE WriteDummies(
                          [ t    |-> [w.t EXCEPT !.files = Append(@,
                                         [ name |-> filename,
                                           path |-> file_path,
                                           size |-> DummySize(w.t.name, filename) ])],
                            dirs |-> w.dirs,
                            fs   |-> w.fs \cup {file_path} ],
                          draw, i + 1, n)
    IN  CHOOSE r \in {Body(w) : w \in {world}} : TRUE

RECURSIVE Ancestors(_)
\* the directories mkdir(parents=True) creates
Ancestors(p) == IF p = "/" THEN {} ELSE {p} \cup Ancestors(ParentDir(p))

create_dummy_files(world, draw) ==
    LET Body(w) ==
          LET t1 == [w.t EXCEPT !.materializations = @ + 1]
          IN  IF draw.fault = Some(0) \/ w.t.download_path \in w.fs
              THEN [w EXCEPT !.t = [t1 EXCEPT !.errors = @ + 1]]
              ELSE WriteDummies(
                     [ t    |-> t1,
                       dirs |-> w.dirs \cup Ancestors(w.t.download_path),
                       fs   |-> w.fs ],
                     draw, 1, draw.num_files)
    IN  CHOOSE r \in {Body(w) : w \in {world}} : TRUE

Min(a, b) == IF a <= b THEN a ELSE b

\* Active, were the statistics branch taken for every record not paused
ActiveUnlessPaused(status) == status # "paused"

\* the branch of update_stats that draws new statistics
Active(status) == status = "downloading"

\* Advance, were the increment added twice
AdvanceTwice(progress, increment) ==
    Min(Pct(100), progress + increment + increment)

\* min(100.0, self.progress + increment)
Advance(progress, increment) == Min(Pct(100), progress + increment)

\* ReachedFull, were the comparison strict
ReachedFullStrict(progress) == progress > Pct(100)

\* if self.progress >= 100.0
ReachedFull(progress) == progress >= Pct(100)

\* Stalled, were the upload speed left as it is (as in the completed case)
StalledDownloadOnly(t) == [t EXCEPT !.download_speed = 0, !.eta = None]

\* Stalled, were the estimate left as it is
StalledKeepingEta(t) == [t EXCEPT !.download_speed = 0, !.upload_speed = 0]

\* the paused branch of update_stats
Stalled(t) == [t EXCEPT !.download_speed = 0,
                        !.upload_speed   = 0,
                        !.eta            = None]

update_stats(w, draw) ==
    LET t == w.t
    IN  IF Active(t.status)
        THEN LET progress   == Advance(t.progress, draw.increment)
                 downloaded == DownloadedBytes(progress, t.total_size)
                 eta        == IF draw.download_speed > 0
                               THEN Some(((t.total_size - downloaded) \div 1024)
                                         \div draw.download_speed)
                               ELSE t.eta
                 t1 == [t EXCEPT !.progress       = progress,
                                 !.download_speed = draw.download_speed,
                                 !.upload_speed   = draw.upload_speed,
                                 !.peers          = draw.peers,
                                 !.seeds          = draw.seeds,
                                 !.downloaded     = downloaded,
                                 !.eta            = eta]
             IN  IF ReachedFull(t1.progress)
                 THEN create_dummy_files(
                        [w EXCEPT !.t = [t1 EXCEPT !.status         = "completed",
                                                   !.progress       = Pct(100),
                                                   !.download_speed = 0,
                                                   !.eta            = Some(0)]],
                        draw)
                 ELSE [w EXCEPT !.t = t1]
        ELSE IF t.status = "paused"
        THEN [w EXCEPT !.t = Stalled(t)]
        ELSE w

-----------------------------------------------------------------------------
(* TorrentManager *)

\* One sample of everything update_stats and _create_dummy_files draw for
\* one record, over the sets of D.
DrawSet(D) ==
    { [ increment      |-> i,
        download_speed |-> r.download_speed,
        upload_speed   |-> r.upload_speed,
        peers          |-> r.peers,
        seeds          |-> r.seeds,
        num_files      |-> n,
        ext            |-> e,
        fault          |-> f ] :
      i \in D.increments, r \in D.rates, n \in D.num_files,
      e \in [1..5 -> D.extensions], f \in D.faults }

\* del self.torrents[torrent_id]
Remove(ts, torrent_id) == [i \in DOMAIN ts \ {torrent_id} |-> ts[i]]

\* self.torrents[torrent_id] = torrent
Put(ts, torrent_id, torrent) ==
    [i \in DOMAIN ts \cup {torrent_id} |->
        IF i = torrent_id THEN torrent ELSE ts[i]]

\* IsMagnet, were any non-empty string accepted
IsMagnetNonEmpty(magnet_link) == Len(magnet_link) > 0

\* magnet_link.startswith("magnet:?")
IsMagnet(magnet_link) == StartsWith(magnet_link, "magnet:?")

\* torrent_id in self.torrents
Present(ts, torrent_id) == torrent_id \in DOMAIN ts

\* IsDuplicate, were the check left out
IsDuplicateNever(ts, torrent_id) == FALSE

\* the duplicate check of the add operations
IsDuplicate(ts, torrent_id) == torrent_id \in DOMAIN ts

\* ShouldRemove, were the delete_files flag ignored
ShouldRemoveAlways(delete_files, exists) == exists

\* delete_files and torrent.download_path.exists()
ShouldRemove(delete_files, exists) == delete_files /\ exists

\* CanPause, were the completed check left out
CanPauseAlways(status) == TRUE

\* pause_torrent refuses a completed record
CanPause(status) == status # "completed"

\* CanResume, were the status not looked at
CanResumeAlways(status) == TRUE

\* CanResume, were only a completed record refused
CanResumeUnlessCompleted(status) == status # "completed"

\* resume_torrent requires a paused record
CanResume(status) == status = "paused"

add_magnet(magnet_link, size, now) ==
    IF ~IsMagnet(magnet_link)
    THEN /\ result' = Ret(FALSE, InvalidFormat, None)
         /\ UNCHANGED <<torrents, dirs, fs>>
    ELSE LET name       == MagnetName(magnet_link, now)
             torrent_id == generate_torrent_id(magnet_link)
         IN  IF IsDuplicate(torrents, torrent_id)
             THEN /\ result' = Ret(FALSE, Duplicate, None)
                  /\ UNCHANGED <<torrents, dirs, fs>>
             ELSE /\ torrents' = Put(torrents, torrent_id,
                                      TorrentInfo(torrent_id, name,
                                          Some(magnet_link), None, size, now))
                  /\ result' = Ret(TRUE, Added, Some(torrent_id))
                  /\ UNCHANGED <<dirs, fs>>

\* SaveRaises, were the record inserted whatever the write does
SaveRaisesNever(write_ok, torrent_path, ds) == FALSE

\* the try block of add_torrent_file raises: write_ok is whether writing
\* the uploaded bytes succeeds; open raises in any case when DOWNLOAD_DIR
\* is gone or the path is a directory.
SaveRaises(write_ok, torrent_path, ds) ==
    ~write_ok \/ ParentDir(torrent_path) \notin ds \/ torrent_path \in ds

add_torrent_file(filename, size, now, write_ok) ==
    IF ~EndsWith(filename, ".torrent")
    THEN /\ result' = Ret(FALSE, InvalidFileType, None)
         /\ UNCHANGED <<torrents, dirs, fs>>
    ELSE LET name         == Replace(filename, ".torrent", "")
             torrent_id   == generate_torrent_id(filename)
             torrent_path == PathJoin(DOWNLOAD_DIR, filename)
         IN  IF IsDuplicate(torrents, torrent_id)
             THEN /\ result' = Ret(FALSE, Duplicate, None)
                  /\ UNCHANGED <<torrents, dirs, fs>>
             ELSE IF SaveRaises(write_ok, torrent_path, dirs)
             THEN /\ result' = Ret(FALSE, ErrorSaving, None)
                  /\ UNCHANGED <<torrents, dirs, fs>>
             ELSE /\ fs' = fs \cup {torrent_path}
                  /\ torrents' = Put(torrents, torrent_id,
                                      TorrentInfo(torrent_id, name, None,
                                          Some(torrent_path), size, now))
                  /\ result' = Ret(TRUE, Added, Some(torrent_id))
                  /\ UNCHANGED dirs

pause_torrent(torrent_id) ==
    IF ~Present(torrents, torrent_id)
    THEN /\ result' = Ret(FALSE, NotFound, None)
         /\ UNCHANGED <<torrents, dirs, fs>>
    ELSE IF ~CanPause(torrents[torrent_id].status)
    THEN /\ result' = Ret(FALSE, CannotPause, None)
         /\ UNCHANGED <<torrents, dirs, fs>>
    ELSE /\ torrents' = [torrents EXCEPT ![torrent_id].status = "paused"]
         /\ result' = Ret(TRUE, Paused, None)
         /\ UNCHANGED <<dirs, fs>>

resume_torrent(torrent_id) ==
    IF ~Present(torrents, torrent_id)
    THEN /\ result' = Ret(FALSE, NotFound, None)
         /\ UNCHANGED <<torrents, dirs, fs>>
    ELSE IF ~CanResume(torrents[torrent_id].status)
    THEN /\ result' = Ret(FALSE, NotPaused, None)
         /\ UNCHANGED <<torrents, dirs, fs>>
    ELSE /\ torrents' = [torrents EXCEPT ![torrent_id].status = "downloading"]
         /\ result' = Ret(TRUE, Resumed, None)
         /\ UNCHANGED <<dirs, fs>>

\* p is root or lies below it
Under(p, root) == p = root \/ StartsWith(p, root \o "/")

\* rmtree_ok: whether shutil.rmtree runs to its end; it raises in any case
\* on a path that is no directory.
delete_torrent(torrent_id, delete_files, rmtree_ok) ==
    IF ~Present(torrents, torrent_id)
    THEN /\ result' = Ret(FALSE, NotFound, None)
         /\ UNCHANGED <<torrents, dirs, fs>>
    ELSE LET root   == torrents[torrent_id].download_path
             remove == ShouldRemove(delete_files, root \in dirs \cup fs)
         IN  IF remove /\ (~rmtree_ok \/ root \notin dirs)
             THEN /\ result' = Ret(FALSE, ErrorDeleting, None)
                  /\ UNCHANGED <<torrents, dirs, fs>>
             ELSE /\ dirs' = IF remove THEN {d \in dirs : ~Under(d, root)}
                                       ELSE dirs
                  /\ fs'   = IF remove THEN {f \in fs : ~Under(f, root)}
                                       ELSE fs
                  /\ torrents' = Remove(torrents, torrent_id)
                  /\ result' = Ret(TRUE, Deleted, None)

RECURSIVE UpdateEach(_, _, _)
\* The loop of update_all_stats over the records ids, on the world
\* w = [torrents, dirs, fs]. The records' steps only add files and
\* directories, so the order of the loop does not show in its outcome.
UpdateEach(ids, w, draws) ==
    IF ids = {} THEN w
    ELSE LET id == CHOOSE x \in ids : TRUE
             o  == update_stats([t |-> w.torrents[id], dirs |-> w.dirs,
                                 fs |-> w.fs], draws[id])
         IN  UpdateEach(ids \ {id},
                        [ torrents |-> [w.torrents EXCEPT ![id] = o.t],
                          dirs     |-> o.dirs,
                          fs       |-> o.fs ],
                        draws)

\* (the loop's outcome o is computed once, then assigned)
update_all_stats(draws) ==
    \E o \in {UpdateEach(DOMAIN torrents,
                         [torrents |-> torrents, dirs |-> dirs, fs |-> fs],
                         draws)} :
        /\ torrents' = o.torrents
        /\ dirs' = o.dirs
        /\ fs' = o.fs
        /\ result' = NoResult

RECURSIVE UpdateTimes(_, _, _)
UpdateTimes(n, w, draws) ==
    IF n = 0 THEN w
    ELSE UpdateTimes(n - 1, UpdateEach(DOMAIN w.torrents, w, draws), draws)

\* auto_refresh_torrents calling update_all_stats n times, one interval
\* after the other, with no other call in between (each time with the
\* sample draws)
refresh(n, draws) ==
    LET o == UpdateTimes(n, [torrents |-> torrents, dirs |-> dirs, fs |-> fs],
                         draws)
    IN  /\ torrents' = o.torrents
        /\ dirs' = o.dirs
        /\ fs' = o.fs
        /\ result' = NoResult

RECURSIVE IndexOfName(_, _, _)
\* position of the first entry of files named filename, from i on; 0 if none
IndexOfName(files, filename, i) ==
    IF i > Len(files) THEN 0
    ELSE IF files[i].name = filename THEN i
    ELSE IndexOfName(files, filename, i + 1)

RemoveAt(seq, k) == SubSeq(seq, 1, k - 1) \o SubSeq(seq, k + 1, Len(seq))

\* Unlinks, were the existence check left out
UnlinksAlways(exists) == TRUE

\* if file_path.exists(): file_path.unlink()
Unlinks(exists) == exists

\* unlink_ok: whether Path.unlink succeeds on an existing regular file; it
\* raises in any case on a directory and on a missing path.
delete_file(torrent_id, filename, unlink_ok) ==
    IF ~Present(torrents, torrent_id)
    THEN /\ result' = Ret(FALSE, NotFound, None)
         /\ UNCHANGED <<torrents, dirs, fs>>
    ELSE LET files == torrents[torrent_id].files
             k     == IndexOfName(files, filename, 1)
         IN  IF k = 0
             THEN /\ result' = Ret(FALSE, FileNotFound, None)
                  /\ UNCHANGED <<torrents, dirs, fs>>
             ELSE IF /\ Unlinks(files[k].path \in dirs \cup fs)
                     /\ (files[k].path \notin fs \/ ~unlink_ok)
             THEN /\ result' = Ret(FALSE, ErrorDeletingFile, None)
                  /\ UNCHANGED <<torrents, dirs, fs>>
             ELSE /\ fs' = fs \ {files[k].path}
                  /\ torrents' = [torrents EXCEPT
                                    ![torrent_id].files = RemoveAt(@, k)]
                  /\ result' = Ret(TRUE, DeletedFile, None)
                  /\ UNCHANGED dirs

-----------------------------------------------------------------------------
(* Specifications *)

\* TorrentManager.__init__: an empty registry, DOWNLOAD_DIR created
Init ==
    /\ torrents = <<>>
    /\ dirs = Ancestors(DOWNLOAD_DIR)
    /\ fs = {}
    /\ result = NoResult
    /\ session = [authenticated |-> FALSE, elapsed |-> 0, run |-> "idle"]
    /\ pausing = {}
    /\ steps = <<>>

\* the ids a client passes: those of the well-formed origins, and one
\* that is never held
Ids(origins) ==
    {generate_torrent_id(o) :
        o \in {x \in origins : StartsWith(x, "magnet:?") \/ EndsWith(x, ".torrent")}}
    \cup {UnknownId}

ListedNames ==
    UNION {{torrents[i].files[k].name : k \in DOMAIN torrents[i].files} :
           i \in DOMAIN torrents}

\* The calls a client can make, with magnet links from links, uploaded
\* files named from uploads, and the environmental outcomes from D.
Calls(links, uploads, D) ==
    \/ \E link \in links, size \in D.sizes, now \in D.now :
          add_magnet(link, size, now)
    \/ \E filename \in uploads, size \in D.sizes, now \in D.now,
          ok \in D.io_ok :
          add_torrent_file(filename, size, now, ok)
    \/ \E id \in Ids(links \cup uploads) : pause_torrent(id)
    \/ \E id \in Ids(links \cup uploads) : resume_torrent(id)
    \/ \E id \in Ids(links \cup uploads), delete_files \in BOOLEAN,
          ok \in D.io_ok :
          delete_torrent(id, delete_files, ok)
    \/ \E id \in Ids(links \cup uploads),
          filename \in ListedNames \cup {"nosuch.bin"}, ok \in D.io_ok :
          delete_file(id, filename, ok)

\* A client call, or the periodic statistics update.
Step(links, uploads, D) ==
    \/ Calls(links, uploads, D)
    \/ \E draws \in [DOMAIN torrents -> DrawSet(D)] : update_all_stats(draws)

LowRates  == [download_speed |-> 500,  upload_speed |-> 50,  peers |-> 5,  seeds |-> 10]

HighRates == [download_speed |-> 5000, upload_speed |-> 500, peers |-> 50, seeds |-> 100]

\* Spec: one magnet link; progress in steps of 3.0; every file count of
\* _create_dummy_files, with and without a failing filesystem call.
LifecycleDraws ==
    [ increments |-> {Pct(3)},
      rates      |-> {LowRates, HighRates},
      sizes      |-> {100 * MiB},
      num_files  |-> 2..5,
      extensions |-> {".mp4"},
      faults     |-> {None, Some(0), Some(2)},
      io_ok      |-> BOOLEAN,
      now        |-> {"20260101_120000"} ]

Next == Step({LinkA, NotMagnet}, {NotesTxt}, LifecycleDraws) /\ UNCHANGED <<session, pausing, steps>>

Spec == Init /\ [][Next]_vars

\* SpecProgress: one magnet link; every increment of the grid from 0.5 to
\* 3.0; a size whose share at some progress is no whole number of bytes,
\* and the largest size that fits 32 bits.
ProgressDraws ==
    [ increments |-> 1..Pct(3),
      rates      |-> {LowRates, HighRates},
      sizes      |-> {137 * MiB, 2000 * MiB},
      num_files  |-> {2},
      extensions |-> {".mp4"},
      faults     |-> {None},
      io_ok      |-> BOOLEAN,
      now        |-> {"20260101_120000"} ]

NextProgress ==
    Step({LinkA, NotMagnet}, {NotesTxt}, ProgressDraws) /\ UNCHANGED <<session, pausing, steps>>

SpecProgress == Init /\ [][NextProgress]_vars

\* the number of refresh intervals between two client calls in SpecRegistry
Burst == 17

\* SpecRegistry: two origins with the same display name, a magnet link and
\* an uploaded file, and the upload's name also offered as a magnet link.
\* The client calls come Burst refresh intervals apart.
RegistryDraws ==
    [ increments |-> {Pct(3)},
      rates      |-> {LowRates},
      sizes      |-> {100 * MiB},
      num_files  |-> {3},
      extensions |-> {".mp4"},
      faults     |-> {None},
      io_ok      |-> BOOLEAN,
      now        |-> {"20260101_120000"} ]

NextRegistry ==
    /\ \/ Calls({LinkA, Upload}, {Upload, NotesTxt}, RegistryDraws)
       \/ \E draws \in [DOMAIN torrents -> DrawSet(RegistryDraws)] :
             refresh(Burst, draws)
    /\ UNCHANGED <<session, pausing, steps>>

SpecRegistry == Init /\ [][NextRegistry]_vars

\* SpecNames: magnet links with and without a dn= parameter, the display
\* name written with "+", with "%20" and with a "dn=" of its own, added at
\* two times of the clock; no statistics updates.
NameDraws ==
    [ increments |-> {Pct(3)},
      rates      |-> {LowRates},
      sizes      |-> {100 * MiB},
      num_files  |-> {2},
      extensions |-> {".mp4"},
      faults     |-> {None},
      io_ok      |-> {TRUE},
      now        |-> {"20260101_120000", "20260101_120003"} ]

NameLinks == {LinkA, LinkB, LinkPlain, LinkDn, NotMagnet}

NextNames == Calls(NameLinks, {Upload}, NameDraws) /\ UNCHANGED <<session, pausing, steps>>

SpecNames == Init /\ [][NextNames]_vars

\* the largest number of materializations of a record after which a pause
\* call may still begin in SpecInterleaved
MaxRaces == 1

\* pause_torrent up to its last statement: the lookup and the check of
\* the status.
pause_check(torrent_id) ==
    /\ torrent_id \notin pausing
    /\ IF ~Present(torrents, torrent_id)
       THEN /\ result' = Ret(FALSE, NotFound, None)
            /\ UNCHANGED pausing
       ELSE IF ~CanPause(torrents[torrent_id].status)
       THEN /\ result' = Ret(FALSE, CannotPause, None)
            /\ UNCHANGED pausing
       ELSE /\ torrents[torrent_id].materializations < MaxRaces
            /\ pausing' = pausing \cup {torrent_id}
            /\ UNCHANGED result
    /\ UNCHANGED <<torrents, dirs, fs, session>>

\* the last statements of pause_torrent: torrent.status = "paused", and
\* the return
pause_write(torrent_id) ==
    /\ torrent_id \in pausing
    /\ torrents' = [torrents EXCEPT ![torrent_id].status = "paused"]
    /\ result' = Ret(TRUE, Paused, None)
    /\ pausing' = pausing \ {torrent_id}
    /\ UNCHANGED <<dirs, fs, session>>

\* SpecInterleaved: one magnet link; pause_torrent runs either as a whole
\* or in its two parts, with the other calls and the statistics update in
\* between; no record is deleted.
NextInterleaved ==
    /\ \/ \E id \in Ids({LinkA}) : pause_check(id)
       \/ \E id \in Ids({LinkA}) : pause_write(id)
       \/ /\ \/ \E size \in RegistryDraws.sizes, now \in RegistryDraws.now :
                   add_magnet(LinkA, size, now)
             \/ \E id \in Ids({LinkA}) : pause_torrent(id)
             \/ \E id \in Ids({LinkA}) : resume_torrent(id)
             \/ \E draws \in [DOMAIN torrents -> DrawSet(RegistryDraws)] :
                   update_all_stats(draws)
          /\ UNCHANGED <<session, pausing>>
    /\ UNCHANGED steps

SpecInterleaved == Init /\ [][NextInterleaved]_vars

-----------------------------------------------------------------------------
(* The query-parameter API (src/api.py, src/auth.py) *)

VALID_USERNAME == "segar"

VALID_PASSWORD == "s2e5g0a3r#"

AuthFailed      == "Authentication failed"
MagnetRequired  == "Magnet link is required"
IdRequired      == "Torrent ID is required"
FoundTorrents   == "Found torrents"
FoundFiles      == "Found files"
UnknownAction   == "Unknown action"

\* validate_credentials, were one matching field enough
validate_credentials_either(username, password) ==
    username = VALID_USERNAME \/ password = VALID_PASSWORD

validate_credentials(username, password) ==
    username = VALID_USERNAME /\ password = VALID_PASSWORD

\* authenticate_api_request: credentials.get(..., '') of both fields
authenticate_api_request(credentials) ==
    validate_credentials(credentials.username, credentials.password)

\* api_response leaves the manager's tuple as it is: success, message and
\* the data, if any
api_response(success, message, payload) == Ret(success, message, payload)

\* An action that only reads the registry: the response and nothing else.
Respond(response) ==
    /\ result' = response
    /\ UNCHANGED <<torrents, dirs, fs>>

\* process_api_action. data holds the form's fields (magnet_link,
\* torrent_id, delete_files, status); env the draws of the manager call
\* (size, now, io_ok). The list responses carry the ids of the records
\* and the names of the files in place of the serialized views.
process_api_action(action, data, env) ==
    CASE action = "add_magnet" ->
           IF data.magnet_link = ""
           THEN Respond(api_response(FALSE, MagnetRequired, None))
           ELSE add_magnet(data.magnet_link, env.size, env.now)
      [] action = "pause" ->
           IF data.torrent_id = ""
           THEN Respond(api_response(FALSE, IdRequired, None))
           ELSE pause_torrent(data.torrent_id)
      [] action = "resume" ->
           IF data.torrent_id = ""
           THEN Respond(api_response(FALSE, IdRequired, None))
           ELSE resume_torrent(data.torrent_id)
      [] action = "delete" ->
           IF data.torrent_id = ""
           THEN Respond(api_response(FALSE, IdRequired, None))
           ELSE delete_torrent(data.torrent_id, data.delete_files, env.io_ok)
      [] action = "list_torrents" ->
           Respond(api_response(TRUE, FoundTorrents,
                      Some({id \in DOMAIN torrents :
                              data.status = "all"
                              \/ torrents[id].status = data.status})))
      [] action = "list_files" ->
           IF data.torrent_id = ""
           THEN Respond(api_response(FALSE, IdRequired, None))
           ELSE Respond(api_response(TRUE, FoundFiles,
                           Some(IF Present(torrents, data.torrent_id)
                                THEN torrents[data.torrent_id].files
                                ELSE <<>>)))
      [] OTHER -> Respond(api_response(FALSE, UnknownAction, None))

\* handle_api_request with the form submitted: the help page has no form;
\* every other action authenticates before it is processed.
handle_api_request(action, credentials, data, env) ==
    IF action = "help"
    THEN Respond(NoResult)
    ELSE IF ~authenticate_api_request(credentials)
    THEN Respond(api_response(FALSE, AuthFailed, None))
    ELSE process_api_action(action, data, env)

ApiActions ==
    {"help", "add_magnet", "pause", "resume", "delete", "list_torrents",
     "list_files", "shutdown"}

\* the credentials a client submits: the configured pair, and each field
\* wrong in turn and both
ApiCredentials ==
    { [username |-> u, password |-> p] :
        u \in {VALID_USERNAME, "admin"}, p \in {VALID_PASSWORD, ""} }

ApiLinks == {LinkA, NotMagnet, ""}

ApiIds == {generate_torrent_id(LinkA), UnknownId, ""}

\* request_data: the fields the form of the action has
ApiData(action) ==
    CASE action = "add_magnet" -> {[magnet_link |-> l] : l \in ApiLinks}
      [] action \in {"pause", "resume", "list_files"} ->
           {[torrent_id |-> i] : i \in ApiIds}
      [] action = "delete" ->
           {[torrent_id |-> i, delete_files |-> d] :
              i \in ApiIds, d \in BOOLEAN}
      [] action = "list_torrents" ->
           {[status |-> f] : f \in {"all", "completed"}}
      [] OTHER -> {<<>>}

\* the draws of the manager call the action makes; only delete meets the
\* filesystem
ApiEnv(action) ==
    { [size |-> z, now |-> n, io_ok |-> ok] :
        z \in RegistryDraws.sizes, n \in RegistryDraws.now,
        ok \in IF action = "delete" THEN BOOLEAN ELSE {TRUE} }

\* SpecApi: requests to the API of one session, and the statistics updates
\* the same session's page makes in between.
NextApi ==
    /\ \/ \E action \in ApiActions, credentials \in ApiCredentials :
             \E data \in ApiData(action), env \in ApiEnv(action) :
                handle_api_request(action, credentials, data, env)
       \/ \E draws \in [DOMAIN torrents -> DrawSet(RegistryDraws)] :
             update_all_stats(draws)
    /\ UNCHANGED <<session, pausing, steps>>

SpecApi == Init /\ [][NextApi]_vars

-----------------------------------------------------------------------------
(* The page's script (src/main.py, src/ui.py, src/auth.py) *)

\* the refresh interval of auto_refresh_torrents, in seconds
RefreshInterval == 3

\* the script calls st.rerun() after a call that succeeded, and goes on
\* to the rest of the page after one that failed
After(ok) == [session EXCEPT !.run = IF ok THEN "rerun" ELSE "refresh"]

\* the login form submitted on the login page
login(username, password) ==
    /\ session.run = "idle"
    /\ ~session.authenticated
    /\ session' = IF validate_credentials(username, password)
                  THEN [session EXCEPT !.authenticated = TRUE, !.run = "rerun"]
                  ELSE session
    /\ UNCHANGED <<torrents, dirs, fs, result, pausing, steps>>

\* the logout button
logout ==
    /\ session.run = "idle"
    /\ session.authenticated
    /\ session' = [session EXCEPT !.authenticated = FALSE, !.run = "rerun"]
    /\ UNCHANGED <<torrents, dirs, fs, result, pausing, steps>>

\* A form or a button of the page used by the user: the script runs up to
\* the widget and makes the manager's call. The pause button is drawn for
\* a downloading record, the resume button for a paused one.
ui_call(links, D) ==
    /\ session.run = "idle"
    /\ session.authenticated
    /\ \/ \E link \in links \ {""}, size \in D.sizes, now \in D.now :
             add_magnet(link, size, now)
       \/ \E id \in DOMAIN torrents :
             torrents[id].status = "downloading" /\ pause_torrent(id)
       \/ \E id \in DOMAIN torrents :
             torrents[id].status = "paused" /\ resume_torrent(id)
       \/ \E id \in DOMAIN torrents, ok \in D.io_ok :
             delete_torrent(id, TRUE, ok)
    /\ session' = After(result'.ok)
    /\ UNCHANGED <<pausing, steps>>

\* any other use of the page: the script runs again from its top
interact ==
    /\ session.run = "idle"
    /\ session' = [session EXCEPT !.run = "rerun"]
    /\ UNCHANGED <<torrents, dirs, fs, result, pausing, steps>>

\* any(t.status == 'downloading' for t in torrents)
has_active(ts) == \E id \in DOMAIN ts : ts[id].status = "downloading"

\* current_time - st.session_state.last_update >= 3
Due(elapsed) == elapsed >= RefreshInterval

\* auto_refresh_torrents (auto_refresh is set at the session's start and
\* never cleared): the update, and the rerun it asks for.
auto_refresh_torrents(draws) ==
    IF Due(session.elapsed)
    THEN /\ update_all_stats(draws)
         /\ session' = [session EXCEPT
                           !.elapsed = 0,
                           !.run = IF has_active(torrents') THEN "rerun"
                                                             ELSE "idle"]
         /\ UNCHANGED <<pausing, steps>>
    ELSE /\ session' = [session EXCEPT !.run = "idle"]
         /\ UNCHANGED <<torrents, dirs, fs, result, pausing, steps>>

\* main, for a script run that st.rerun() asked for or that goes on after
\* a widget: the login page when not authenticated, else the page and
\* auto_refresh_torrents at its end.
main(draws) ==
    /\ session.run # "idle"
    /\ IF ~session.authenticated
       THEN /\ session' = [session EXCEPT !.run = "idle"]
            /\ UNCHANGED <<torrents, dirs, fs, result, pausing, steps>>
       ELSE auto_refresh_torrents(draws)

\* A second passes while the script waits for the user (a script run, and
\* the 0.1 s sleep before st.rerun(), are over within the second).
Tick ==
    /\ session.run = "idle"
    /\ session.elapsed < RefreshInterval
    /\ session' = [session EXCEPT !.elapsed = @ + 1]
    /\ UNCHANGED <<torrents, dirs, fs, result, pausing, steps>>

Runs == \E draws \in [DOMAIN torrents -> DrawSet(RegistryDraws)] : main(draws)

\* SpecUi: one session of the page. A script run that was asked for
\* happens, and time passes; nothing makes the user act.
NextUi ==
    \/ \E credentials \in ApiCredentials :
          login(credentials.username, credentials.password)
    \/ logout
    \/ ui_call({LinkA, NotMagnet}, RegistryDraws)
    \/ interact
    \/ Runs
    \/ Tick

SpecUi == Init /\ [][NextUi]_vars /\ WF_vars(Runs) /\ WF_vars(Tick)

\* SpecSteps: one magnet link, paused and resumed as the page offers it
\* (the pause button on a downloading record, the resume button on a
\* paused one); no record is deleted; the progress increment is the
\* smallest or the largest of random.uniform(0.5, 3.0).
StepsDraws ==
    [ increments |-> {1, Pct(3)},
      rates      |-> {LowRates},
      sizes      |-> {100 * MiB},
      num_files  |-> {2},
      extensions |-> {".mp4"},
      faults     |-> {None},
      io_ok      |-> BOOLEAN,
      now        |-> {"20260101_120000"} ]

\* steps after a client call: a record just constructed has had no
\* update_stats call
Uncounted ==
    [id \in DOMAIN torrents' |->
        IF id \in DOMAIN torrents THEN steps[id] ELSE 0]

\* steps after update_all_stats: the loop calls update_stats once on every
\* record, and the call counts where the status it finds is "downloading"
Counted ==
    [id \in DOMAIN torrents |->
        IF torrents[id].status = "downloading" THEN steps[id] + 1
                                               ELSE steps[id]]

\* the periodic statistics update, counted
StatsStep ==
    /\ steps' = Counted
    /\ UNCHANGED <<session, pausing>>
    /\ \E draws \in [DOMAIN torrents -> DrawSet(StepsDraws)] :
          update_all_stats(draws)

NextSteps ==
    \/ /\ \/ \E size \in StepsDraws.sizes, now \in StepsDraws.now :
                add_magnet(LinkA, size, now)
          \/ \E id \in DOMAIN torrents :
                torrents[id].status = "downloading" /\ pause_torrent(id)
          \/ \E id \in DOMAIN torrents :
                torrents[id].status = "paused" /\ resume_torrent(id)
       /\ steps' = Uncounted
       /\ UNCHANGED <<session, pausing>>
    \/ StatsStep

\* update_all_stats keeps being called while it has something to change
SpecSteps == Init /\ [][NextSteps]_vars /\ WF_vars(StatsStep)

-----------------------------------------------------------------------------
(* Properties *)

Held == DOMAIN torrents

\* the records a step keeps
Kept == DOMAIN torrents \cap DOMAIN torrents'

\* C1: for every record of the registry, progress is 100 exactly when the
\* status is completed.
C1_FullIffCompleted ==
    \A id \in Held :
        (torrents[id].progress = Pct(100)) <=> (torrents[id].status = "completed")

\* a completed record at 100 that a pause call has just been refused on
C1_Witness ==
    \E id \in Held :
        /\ torrents[id].status = "completed"
        /\ torrents[id].progress = Pct(100)
        /\ result = Ret(FALSE, CannotPause, None)

RegistryLinks == {LinkA, Upload}

\* C2: add_magnet with a link whose id is in the registry returns the
\* Duplicate failure and leaves the registry (its ids and every record)
\* and the disk as they were; with a magnet link whose id is not in the
\* registry it succeeds.
C2_DuplicateRejected ==
    [][\A link \in RegistryLinks, size \in RegistryDraws.sizes,
          now \in RegistryDraws.now :
          (add_magnet(link, size, now) /\ StartsWith(link, "magnet:?")) =>
             IF generate_torrent_id(link) \in Held
             THEN /\ result' = Ret(FALSE, Duplicate, None)
                  /\ torrents' = torrents
                  /\ dirs' = dirs /\ fs' = fs
             ELSE /\ result'.ok
                  /\ DOMAIN torrents' = Held \cup {generate_torrent_id(link)}
      ]_vars

\* a second add of LinkA was refused while its record had moved on and
\* another record was held
C2_Witness ==
    /\ result = Ret(FALSE, Duplicate, None)
    /\ Cardinality(Held) = 2
    /\ generate_torrent_id(LinkA) \in Held
    /\ torrents[generate_torrent_id(LinkA)].progress > 0
    /\ torrents[generate_torrent_id(Upload)].progress = 0

\* C3: a record lists files only when it is completed, and
\* _create_dummy_files runs for a record only in the update_all_stats step
\* that takes it from downloading to completed: once, and never again.
C3_MaterializedOnce ==
    /\ [](\A id \in Held :
            /\ torrents[id].files # <<>> => torrents[id].status = "completed"
            /\ torrents[id].materializations =
                 IF torrents[id].status = "completed" THEN 1 ELSE 0)
    /\ [][\A id \in Kept :
            torrents'[id].materializations # torrents[id].materializations =>
               /\ torrents[id].status = "downloading"
               /\ torrents'[id].status = "completed"
               /\ torrents'[id].materializations = 1
               /\ result' = NoResult
      ]_vars

\* a completed record that lists its files after a further statistics step
C3_Witness ==
    \E id \in Held :
        /\ torrents[id].status = "completed"
        /\ Len(torrents[id].files) = 5
        /\ torrents[id].materializations = 1
        /\ result = Ret(FALSE, CannotPause, None)

\* C4: progress lies in [0, 100]; a step that leaves a record downloading
\* keeps its progress or adds an increment of 0.5 to 3.0 to it, and the step
\* that completes it adds such an increment clamped at 100.
C4_ProgressMonotone ==
    /\ [](\A id \in Held :
            torrents[id].progress >= 0 /\ torrents[id].progress <= Pct(100))
    /\ [][\A id \in Kept :
            torrents[id].status = "downloading" =>
               \/ torrents'[id].progress = torrents[id].progress
               \/ /\ result' = NoResult
                  /\ \E h \in 1..Pct(3) :
                        torrents'[id].progress =
                           Min(Pct(100), torrents[id].progress + h)
      ]_vars

\* a downloading record at 99.5
C4_Witness ==
    \E id \in Held :
        /\ torrents[id].status = "downloading"
        /\ torrents[id].progress = Pct(100) - 1

\* C5: an update_all_stats step leaves every completed record as it was,
\* in every field.
C5_CompletedFrozen ==
    [][\A id \in Kept :
          (torrents[id].status = "completed" /\ result' = NoResult) =>
             torrents'[id] = torrents[id]
      ]_vars

\* update_all_stats has run on a completed record after delete_file took
\* the first entry off its list
C5_Witness ==
    \E id \in Held :
        /\ torrents[id].status = "completed"
        /\ torrents[id].files # <<>>
        /\ torrents[id].files[1].name # DummyName(torrents[id].name, 1, ".mp4")
        /\ result = NoResult

\* the step completes the record id
Completes(id) ==
    /\ id \in Kept
    /\ torrents[id].status # "completed"
    /\ torrents'[id].status = "completed"

\* C6 as stated: the step that completes a record leaves its file list
\* with 2 to 5 entries.
C6_AsStated ==
    [][\A id \in Kept :
          Completes(id) => Len(torrents'[id].files) \in 2..5
      ]_vars

\* C6: a record is completed in one step only, which sets progress to 100
\* and runs the materialization once; its file list then has 2 to 5
\* entries when no filesystem call of the materialization failed, and
\* fewer than 5 (possibly none) when one did. A completed record stays
\* completed.
C6_CompletedOnceWithFiles ==
    [][\A id \in Kept :
          /\ Completes(id) =>
                /\ torrents[id].status = "downloading"
                /\ torrents'[id].progress = Pct(100)
                /\ torrents'[id].materializations = 1
                /\ torrents'[id].errors \in {0, 1}
                /\ torrents'[id].errors = 0 =>
                      Len(torrents'[id].files) \in 2..5
                /\ torrents'[id].errors = 1 =>
                      Len(torrents'[id].files) \in 0..4
          /\ torrents[id].status = "completed" =>
                torrents'[id].status = "completed"
      ]_vars

\* a record completed with two files and no failure reported
C6_Witness ==
    \E id \in Held :
        /\ torrents[id].status = "completed"
        /\ torrents[id].errors = 0
        /\ Len(torrents[id].files) = 2
        /\ result = NoResult
        /\ \A k \in 1..2 :
              torrents[id].files[k].name =
                 DummyName(torrents[id].name, k, ".mp4")

LifecycleIds == Ids({LinkA, NotMagnet, NotesTxt})

\* C7: pause_torrent fails with "not found" for an absent id and with
\* "cannot pause" for a completed record, changing nothing; for a record
\* in any other status it succeeds and sets only the status, to paused.
C7_Pause ==
    [][\A id \in LifecycleIds :
          pause_torrent(id) =>
             /\ dirs' = dirs /\ fs' = fs
             /\ IF id \notin Held
                THEN result' = Ret(FALSE, NotFound, None) /\ torrents' = torrents
                ELSE IF torrents[id].status = "completed"
                THEN /\ result' = Ret(FALSE, CannotPause, None)
                     /\ result'.message \in InvalidTransition
                     /\ torrents' = torrents
                ELSE /\ result'.ok
                     /\ torrents' = [torrents EXCEPT ![id].status = "paused"]
      ]_vars

\* pause has succeeded on a record that was already paused and refreshed
C7_Witness ==
    \E id \in Held :
        /\ torrents[id].status = "paused"
        /\ torrents[id].progress > 0
        /\ torrents[id].download_speed = 0
        /\ result = Ret(TRUE, Paused, None)

\* C8: resume_torrent fails with "not found" for an absent id and with
\* "not paused" for a record in any status but paused, changing nothing;
\* for a paused record it succeeds and sets only the status, to
\* downloading.
C8_Resume ==
    [][\A id \in LifecycleIds :
          resume_torrent(id) =>
             /\ dirs' = dirs /\ fs' = fs
             /\ IF id \notin Held
                THEN result' = Ret(FALSE, NotFound, None) /\ torrents' = torrents
                ELSE IF torrents[id].status # "paused"
                THEN /\ result' = Ret(FALSE, NotPaused, None)
                     /\ result'.message \in InvalidTransition
                     /\ torrents' = torrents
                ELSE /\ result'.ok
                     /\ torrents' = [torrents EXCEPT ![id].status = "downloading"]
      ]_vars

\* a record resumed with the progress it was paused at
C8_Witness ==
    \E id \in Held :
        /\ torrents[id].status = "downloading"
        /\ torrents[id].progress > 0
        /\ torrents[id].download_speed = 0
        /\ result = Ret(TRUE, Resumed, None)

RegistryIds == Ids({LinkA, Upload, NotesTxt})

\* C9: delete_torrent fails with "not found" for an absent id. For a held
\* record it either succeeds and removes that record only, or fails with
\* "error deleting files" and keeps the registry: it fails exactly when
\* delete_files is set, the download directory exists and its removal
\* fails. On success with delete_files set nothing is left at or below the
\* download directory; without delete_files the disk is left as it was.
C9_Delete ==
    [][\A id \in RegistryIds, delete_files \in BOOLEAN, ok \in BOOLEAN :
          delete_torrent(id, delete_files, ok) =>
             IF id \notin Held
             THEN /\ result' = Ret(FALSE, NotFound, None)
                  /\ torrents' = torrents /\ dirs' = dirs /\ fs' = fs
             ELSE LET root   == torrents[id].download_path
                      exists == root \in dirs
                  IN  /\ result'.ok <=> ~(delete_files /\ exists /\ ~ok)
                      /\ result'.ok =>
                            /\ result'.message = Deleted
                            /\ DOMAIN torrents' = Held \ {id}
                            /\ \A o \in DOMAIN torrents' : torrents'[o] = torrents[o]
                            /\ delete_files =>
                                  /\ root \notin dirs'
                                  /\ \A f \in fs' : ~StartsWith(f, root \o "/")
                            /\ ~delete_files => dirs' = dirs /\ fs' = fs
                      /\ ~result'.ok =>
                            /\ result'.message = ErrorDeleting
                            /\ torrents' = torrents
      ]_vars

\* a record was deleted together with the download directory: the other
\* record of the same name still lists a file that is gone from the disk
C9_Witness ==
    /\ result = Ret(TRUE, Deleted, None)
    /\ \E id \in Held :
          /\ torrents[id].files # <<>>
          /\ torrents[id].files[1].path \notin fs
          /\ torrents[id].download_path \notin dirs

\* C10: add_magnet with a link that does not start with "magnet:?" fails
\* with "invalid format" and changes nothing, also when the link's id is
\* held; with a magnet link whose id is not held it adds one record under
\* that id, downloading, at progress 0, without files, keeps every other
\* record and returns the id.
C10_AddMagnet ==
    [][\A link \in RegistryLinks, size \in RegistryDraws.sizes,
          now \in RegistryDraws.now :
          add_magnet(link, size, now) =>
             LET id == generate_torrent_id(link)
             IN  /\ dirs' = dirs /\ fs' = fs
                 /\ IF ~StartsWith(link, "magnet:?")
                    THEN /\ result' = Ret(FALSE, InvalidFormat, None)
                         /\ torrents' = torrents
                    ELSE id \notin Held =>
                            /\ result' = Ret(TRUE, Added, Some(id))
                            /\ DOMAIN torrents' = Held \cup {id}
                            /\ \A o \in Held : torrents'[o] = torrents[o]
                            /\ torrents'[id].id = id
                            /\ torrents'[id].status = "downloading"
                            /\ torrents'[id].progress = 0
                            /\ torrents'[id].files = <<>>
      ]_vars

\* the upload's filename was refused as a magnet link while its id was
\* held
C10_Witness ==
    /\ result = Ret(FALSE, InvalidFormat, None)
    /\ generate_torrent_id(Upload) \in Held

RegistryUploads == {Upload, NotesTxt}

\* C11: add_torrent_file fails with "invalid file type" for a filename that
\* does not end in ".torrent", with "already exists" when the filename's id
\* is held, and with "error saving" when writing the uploaded bytes fails;
\* every failing call leaves the registry and the disk as they were. A
\* call that succeeds has written the file under DOWNLOAD_DIR and added
\* one record under the filename's id, downloading, at progress 0, every
\* other record kept.
C11_AddTorrentFile ==
    [][\A filename \in RegistryUploads, size \in RegistryDraws.sizes,
          now \in RegistryDraws.now, ok \in BOOLEAN :
          add_torrent_file(filename, size, now, ok) =>
             LET id == generate_torrent_id(filename)
             IN  /\ ~(Len(filename) >= 8 /\ SubSeq(filename, Len(filename) - 7,
                                                    Len(filename)) = ".torrent")
                       => result' = Ret(FALSE, InvalidFileType, None)
                 /\ (filename = Upload /\ id \in Held)
                       => result' = Ret(FALSE, Duplicate, None)
                 /\ (filename = Upload /\ id \notin Held /\ ~ok)
                       => result' = Ret(FALSE, ErrorSaving, None)
                 /\ ~result'.ok =>
                       torrents' = torrents /\ dirs' = dirs /\ fs' = fs
                 /\ result'.ok =>
                       /\ ok /\ id \notin Held
                       /\ result' = Ret(TRUE, Added, Some(id))
                       /\ (DOWNLOAD_DIR \o "/" \o filename) \in fs'
                       /\ DOMAIN torrents' = Held \cup {id}
                       /\ \A o \in Held : torrents'[o] = torrents[o]
                       /\ torrents'[id].status = "downloading"
                       /\ torrents'[id].progress = 0
      ]_vars

\* writing the upload failed while another record was held: no record of
\* the upload, no file of it on the disk
C11_Witness ==
    /\ result = Ret(FALSE, ErrorSaving, None)
    /\ generate_torrent_id(Upload) \notin Held
    /\ generate_torrent_id(LinkA) \in Held
    /\ (DOWNLOAD_DIR \o "/" \o Upload) \notin fs

\* C12 as stated: a record's eta is absent whenever its status is not
\* downloading or its download speed is zero.
C12_AsStated ==
    \A id \in Held :
        (torrents[id].status # "downloading" \/ torrents[id].download_speed = 0)
           => torrents[id].eta = None

\* C12: a record's eta is absent whenever its download speed is zero and it
\* is not completed; a completed record's eta is the zero duration; the
\* statistics step on a paused record clears its eta, and the pause call
\* itself leaves the eta of the last step in place.
C12_EtaAbsent ==
    /\ [](\A id \in Held :
            /\ (torrents[id].status # "completed"
                   /\ torrents[id].download_speed = 0)
                  => torrents[id].eta = None
            /\ torrents[id].status = "completed" => torrents[id].eta = <<0>>)
    /\ [][\A id \in Kept :
            /\ (torrents[id].status = "paused" /\ result' = NoResult)
                  => torrents'[id].eta = None
            /\ result'.message = Paused
                  => torrents'[id].eta = torrents[id].eta
      ]_vars

\* a record paused in mid-download whose estimate the next statistics
\* step has cleared
C12_Witness ==
    \E id \in Held :
        /\ torrents[id].status = "paused"
        /\ torrents[id].progress > 0
        /\ torrents[id].peers > 0
        /\ torrents[id].eta = None
        /\ result = NoResult

\* C13: for every record, downloaded is progress/100 * total_size cut to
\* an integer (MiB/200 = 131072/25) and is at most total_size; no step
\* changes the total_size of a record it keeps.
C13_DownloadedConsistent ==
    /\ [](\A id \in Held :
            LET P == torrents[id].progress * (torrents[id].total_size \div MiB)
            IN  /\ torrents[id].total_size % MiB = 0
                /\ torrents[id].downloaded =
                      (P \div 25) * 131072 + ((P % 25) * 131072) \div 25
                /\ torrents[id].downloaded <= torrents[id].total_size)
    /\ [][\A id \in Kept :
            torrents'[id].total_size = torrents[id].total_size]_vars

\* a record paused at a progress whose share of the size is no whole
\* number of bytes, after a statistics step on the paused record
C13_Witness ==
    \E id \in Held :
        /\ torrents[id].status = "paused"
        /\ torrents[id].download_speed = 0
        /\ torrents[id].progress > Pct(50)
        /\ (torrents[id].progress * (torrents[id].total_size \div MiB)) % 25 = 13
        /\ torrents[id].downloaded > 0

\* C14: an update_all_stats step takes a paused record to the same record
\* with download_speed and upload_speed zero and eta absent, every other
\* field as it was; and a record that stays paused with both speeds zero
\* keeps them zero, whatever the step.
C14_PausedFrame ==
    [][\A id \in Kept :
          /\ (torrents[id].status = "paused" /\ result' = NoResult) =>
                /\ torrents'[id].download_speed = 0
                /\ torrents'[id].upload_speed = 0
                /\ torrents'[id].eta = None
                /\ [torrents'[id] EXCEPT !.download_speed = 0,
                                         !.upload_speed = 0, !.eta = None]
                     = [torrents[id] EXCEPT !.download_speed = 0,
                                            !.upload_speed = 0, !.eta = None]
          /\ (torrents[id].status = "paused" /\ torrents'[id].status = "paused"
                 /\ torrents[id].download_speed = 0
                 /\ torrents[id].upload_speed = 0) =>
                /\ torrents'[id].download_speed = 0
                /\ torrents'[id].upload_speed = 0
      ]_vars

\* a record paused after a step with the high rates, its speeds zeroed by
\* the next statistics step, its peers and seeds as the step left them
C14_Witness ==
    \E id \in Held :
        /\ torrents[id].status = "paused"
        /\ torrents[id].download_speed = 0
        /\ torrents[id].upload_speed = 0
        /\ torrents[id].peers = HighRates.peers
        /\ torrents[id].seeds = HighRates.seeds
        /\ torrents[id].downloaded > 0
        /\ result = NoResult

\* the names delete_file is called with
RegistryFileNames ==
    {DummyName("My Movie", i, ".mp4") : i \in 1..5} \cup {"nosuch.bin"}

\* the positions of the entries of files named filename
Named(files, filename) == {j \in DOMAIN files : files[j].name = filename}

\* files without its entry at position k
Without(files, k) ==
    [j \in 1..(Len(files) - 1) |-> IF j < k THEN files[j] ELSE files[j + 1]]

\* C15 as stated: delete_file fails with "not found" for an absent id and
\* with "file not found" when the record lists no file of that name,
\* changing nothing; otherwise it succeeds and removes that one entry.
C15_AsStated ==
    [][\A id \in RegistryIds, filename \in RegistryFileNames, ok \in BOOLEAN :
          delete_file(id, filename, ok) =>
             IF id \notin Held
             THEN result' = Ret(FALSE, NotFound, None) /\ torrents' = torrents
             ELSE IF Named(torrents[id].files, filename) = {}
             THEN result' = Ret(FALSE, FileNotFound, None) /\ torrents' = torrents
             ELSE /\ result'.ok
                  /\ \E k \in Named(torrents[id].files, filename) :
                        torrents'[id].files = Without(torrents[id].files, k)
      ]_vars

\* C15: delete_file fails with "not found" for an absent id and with "file
\* not found" when the record lists no file of that name. Otherwise it
\* fails with "error deleting file" exactly when the file is on the disk
\* and removing it fails; every failing call changes nothing. A call that
\* succeeds, also for a file missing on the disk, takes that one entry off
\* the record's list, the other entries kept in their order, leaves no
\* file at the entry's path, and changes nothing else of the record
\* (status, progress) or of any other record.
C15_DeleteFile ==
    [][\A id \in RegistryIds, filename \in RegistryFileNames, ok \in BOOLEAN :
          delete_file(id, filename, ok) =>
             /\ dirs' = dirs
             /\ ~result'.ok => torrents' = torrents /\ fs' = fs
             /\ IF id \notin Held
                THEN result' = Ret(FALSE, NotFound, None)
                ELSE IF Named(torrents[id].files, filename) = {}
                THEN result' = Ret(FALSE, FileNotFound, None)
                ELSE LET files == torrents[id].files
                         k     == CHOOSE j \in Named(files, filename) : TRUE
                     IN  /\ Cardinality(Named(files, filename)) = 1
                         /\ result'.ok <=> ~(files[k].path \in fs /\ ~ok)
                         /\ ~result'.ok => result'.message = ErrorDeletingFile
                         /\ result'.ok =>
                               /\ result'.message = DeletedFile
                               /\ torrents' = [torrents EXCEPT
                                                 ![id].files = Without(files, k)]
                               /\ fs' = fs \ {files[k].path}
      ]_vars

\* delete_file has succeeded on the middle entry of a record whose files
\* were gone from the disk: the first and the last entry are left, in order
C15_Witness ==
    /\ result = Ret(TRUE, DeletedFile, None)
    /\ \E id \in Held :
          /\ torrents[id].status = "completed"
          /\ Len(torrents[id].files) = 2
          /\ torrents[id].files[1].name = DummyName(torrents[id].name, 1, ".mp4")
          /\ torrents[id].files[2].name = DummyName(torrents[id].name, 3, ".mp4")
          /\ torrents[id].download_path \notin dirs

\* C16: a submitted API request whose username or password differs from
\* the configured value gets the response success = false, "authentication
\* failed", and leaves the registry and the disk as they were, whatever
\* the action (list actions included); so a step that changes the registry
\* or answers with a manager's or a list's message comes from a request
\* with both configured values (or from the statistics update).
C16_ApiAuth ==
    [][\A action \in ApiActions \ {"help"}, credentials \in ApiCredentials :
          \A data \in ApiData(action), env \in ApiEnv(action) :
          (/\ ~(credentials.username = "segar"
                 /\ credentials.password = "s2e5g0a3r#")
           /\ handle_api_request(action, credentials, data, env)) =>
             /\ result' = [ok |-> FALSE, message |-> AuthFailed, data |-> None]
             /\ torrents' = torrents /\ dirs' = dirs /\ fs' = fs
      ]_vars

\* a request with a wrong password was refused while the registry held a
\* record in mid-download
C16_Witness ==
    /\ result = Ret(FALSE, AuthFailed, None)
    /\ \E id \in Held :
          /\ torrents[id].status = "downloading"
          /\ torrents[id].progress > 0

\* C17: in an authenticated session, a record that is downloading does not
\* stay so for ever: with no further use of the page it is eventually
\* completed (the other ways out are the user's: pause, delete, logout).
C17_AutoRefreshCompletes ==
    (/\ session.authenticated
     /\ generate_torrent_id(LinkA) \in Held
     /\ torrents[generate_torrent_id(LinkA)].status = "downloading")
    ~> (\/ ~session.authenticated
        \/ generate_torrent_id(LinkA) \notin Held
        \/ torrents[generate_torrent_id(LinkA)].status \in {"completed", "paused"})

\* the text of link after its first "dn=" up to the next "&", with every
\* "+" and every "%20" made a space
NameAfterDn(link) ==
    LET k    == CHOOSE j \in 1..(Len(link) - 2) :
                   /\ SubSeq(link, j, j + 2) = "dn="
                   /\ \A h \in 1..(j - 1) : SubSeq(link, h, h + 2) # "dn="
        rest == SubSeq(link, k + 3, Len(link))
        amps == {j \in 1..Len(rest) : SubSeq(rest, j, j) = "&"}
        stop == IF amps = {} THEN Len(rest) + 1
                ELSE CHOOSE j \in amps : \A h \in amps : j <= h
        raw  == SubSeq(rest, 1, stop - 1)
    IN  Replace(Replace(raw, "%20", " "), "+", " ")

\* C18: every record added from a magnet link that contains "dn=" is
\* named by the text after the first "dn=" up to the next "&", with "+"
\* and "%20" decoded to spaces; the record of
\* "magnet:?xt=urn:btih:ABC&dn=My+Movie" is named "My Movie".
C18_NameFromDn ==
    \A id \in Held :
        /\ (torrents[id].magnet_link # None
               /\ \E j \in 1..(Len(torrents[id].magnet_link[1]) - 2) :
                     SubSeq(torrents[id].magnet_link[1], j, j + 2) = "dn=")
              => torrents[id].name = NameAfterDn(torrents[id].magnet_link[1])
        /\ torrents[id].magnet_link = <<"magnet:?xt=urn:btih:ABC&dn=My+Movie">>
              => torrents[id].name = "My Movie"

\* the record id is at 100 without being completed
Torn(ts, id) == ts[id].progress = Pct(100) /\ ts[id].status # "completed"

\* C19: a record comes to be at progress 100 without being completed only
\* by the write of a pause_torrent call that passed its check before the
\* statistics step completed the record (the write finds it completed);
\* no call that runs as a whole, and no statistics step, does it. And
\* _create_dummy_files runs again for a record that has its files only
\* on a record so torn and resumed.
C19_TornOnlyByRace ==
    [][\A id \in Kept :
          /\ (Torn(torrents', id) /\ ~Torn(torrents, id)) =>
                /\ id \in pausing /\ id \notin pausing'
                /\ torrents[id].status = "completed"
                /\ torrents'[id].status = "paused"
          /\ (torrents'[id].materializations > torrents[id].materializations
                 /\ torrents[id].materializations >= 1) =>
                /\ Torn(torrents, id)
                /\ torrents[id].status = "downloading"
                /\ torrents'[id].status = "completed"
      ]_vars

\* the record was completed between the check and the write of a pause,
\* then resumed, and the next statistics step has run _create_dummy_files
\* a second time: the files are listed twice
C19_Witness ==
    \E id \in Held :
        /\ torrents[id].status = "completed"
        /\ torrents[id].progress = Pct(100)
        /\ torrents[id].materializations = 2
        /\ Len(torrents[id].files) = 6
        /\ torrents[id].files[4] = torrents[id].files[1]
        /\ result = NoResult

\* C20: a record's status is downloading, paused or completed, never
\* error. A step changes the status of a record it keeps only from
\* downloading to paused (a pause call), from paused to downloading (a
\* resume call) or from downloading to completed (the statistics update);
\* a completed record stays completed as long as it is held.
C20_StatusTransitions ==
    /\ [](\A id \in Held :
            torrents[id].status \in {"downloading", "paused", "completed"})
    /\ [][\A id \in Kept :
            torrents'[id].status # torrents[id].status =>
               \/ /\ torrents[id].status = "downloading"
                  /\ torrents'[id].status = "paused"
                  /\ result' = Ret(TRUE, Paused, None)
               \/ /\ torrents[id].status = "paused"
                  /\ torrents'[id].status = "downloading"
                  /\ result' = Ret(TRUE, Resumed, None)
               \/ /\ torrents[id].status = "downloading"
                  /\ torrents'[id].status = "completed"
                  /\ result' = NoResult
      ]_vars

\* a resume call was refused on a completed record that had been paused
\* and resumed on its way
C20_Witness ==
    \E id \in Held :
        /\ torrents[id].status = "completed"
        /\ torrents[id].upload_speed = LowRates.upload_speed
        /\ result = Ret(FALSE, NotPaused, None)

-----------------------------------------------------------------------------
\* C21: a record becomes completed on an update_stats call made while it is
\* downloading, never before the 34th such call and at the latest on the
\* 200th; no step changes the progress or the count of a paused record;
\* and with the statistics update weakly fair no record stays downloading
\* for ever: one that is not paused again and again is completed.
C21_StepsToComplete ==
    /\ [](\A id \in DOMAIN torrents :
            /\ torrents[id].status = "completed" => steps[id] \in 34..200
            /\ steps[id] >= 200 => torrents[id].status = "completed")
    /\ [][\A id \in Kept :
            /\ torrents[id].status = "paused" =>
                  /\ torrents'[id].progress = torrents[id].progress
                  /\ steps'[id] = steps[id]
            /\ /\ torrents[id].status # "completed"
               /\ torrents'[id].status = "completed"
               => /\ torrents[id].status = "downloading"
                  /\ steps'[id] = steps[id] + 1]_vars
    /\ []<>(\A id \in DOMAIN torrents : torrents[id].status # "downloading")

\* a record completed on its 200th downloading step
C21_Witness ==
    \E id \in DOMAIN torrents :
        /\ torrents[id].status = "completed"
        /\ steps[id] = 200

-----------------------------------------------------------------------------
\* C22: delete_torrent with delete_files set affects the deleted record
\* only: every other record is held afterwards as it was, and every file
\* of another record's file list that was on the disk is still there,
\* also when two records have the same display name.
C22_DeleteOnlyOwn ==
    [][\A id \in RegistryIds, ok \in BOOLEAN :
          delete_torrent(id, TRUE, ok) =>
             \A o \in Held \ {id} :
                /\ o \in DOMAIN torrents'
                /\ torrents'[o] = torrents[o]
                /\ \A k \in DOMAIN torrents[o].files :
                      torrents[o].files[k].path \in fs =>
                         torrents[o].files[k].path \in fs'
      ]_vars

====
